---- MODULE Spec2Model ----
(***************************************************************************)
(* The continuous-line puzzle of src/5_continuous_line: the grid graph     *)
(* with its dummy node, the degree constraints, the subtour() helper and   *)
(* the iterative subtour-elimination loop of                               *)
(* continuous_line_tsp_dfj_calling_grb.py and                              *)
(* continuous_line_tsp_dfj_calling_pulp.py.  The MILP solver is outside    *)
(* the repository: a solve is the choice of any 0/1 assignment that        *)
(* satisfies every registered constraint.                                  *)
(***************************************************************************)
EXTENDS Integers, Sequences, FiniteSets, TLC

\* ------------------------------------------------------------------ bounds
\* Grids of the general specification have at most MaxCells cells
\* (num_rows * num_cols <= MaxCells), holes included.
MaxCells == 4
\* After a solve that PuLP reports infeasible the variable values are
\* whatever CBC left: at most MaxSelected of them read as 1.
MaxSelected == 2
\* Number of infeasible solves whose status the PuLP loop ignores before the
\* model stops following the run.
MaxIgnored == 1
\* SpecInput draws num_rows and num_cols from 0..MaxDim and at most MaxHoles
\* holes from the cells (0..MaxDim+1) x (0..MaxDim+1).
MaxDim == 2
MaxHoles == 2
\* Spec3x3 follows the loop on the 3 x 3 grid for at most MaxSolves solves.
MaxSolves == 1
\* u of continuous_line_tsp_dfj_pulp.py has no lower bound: its values are
\* drawn from (1 - MaxBelow) .. len(N).
MaxBelow == 1

\* ------------------------------------------------------------------ graph
dummy_node == <<0, 0>>

Abs(v) == IF v < 0 THEN -v ELSE v

\* Cells of a rows x cols grid in row-major order (the two nested range loops).
GridCells(rows, cols) ==
    [k \in 1..(IF rows > 0 /\ cols > 0 THEN rows * cols ELSE 0) |->
        <<((k - 1) \div cols) + 1, ((k - 1) % cols) + 1>>]

\* Nodes without the test "(i, j) not in H": a node for every cell.
NodesAllCells(rows, cols, holes) ==
    Append(GridCells(rows, cols), dummy_node)

\* "creating nodes": every cell not in the hole list, then the dummy node.
Nodes(rows, cols, holes) ==
    Append(SelectSeq(GridCells(rows, cols), LAMBDA c : c \notin holes), dummy_node)

\* IsArc without the same-row and same-column tests.
IsArcAnyRow(origin, destination) ==
    \/ (origin = dummy_node) # (destination = dummy_node)
    \/ Abs(origin[2] - destination[2]) = 1
    \/ Abs(origin[1] - destination[1]) = 1

\* IsArc without the arcs of the dummy node: only moves inside the grid.
IsArcGridOnly(origin, destination) ==
    \/ origin[1] = destination[1] /\ Abs(origin[2] - destination[2]) = 1
    \/ origin[2] = destination[2] /\ Abs(origin[1] - destination[1]) = 1

\* The condition under which "creating arcs" appends (origin, destination).
IsArc(origin, destination) ==
    \/ (origin = dummy_node) # (destination = dummy_node)
    \/ origin[1] = destination[1] /\ Abs(origin[2] - destination[2]) = 1
    \/ origin[2] = destination[2] /\ Abs(origin[1] - destination[1]) = 1

\* "creating arcs": origin-major list of the pairs of nodes that satisfy IsArc.
Arcs(nodes) ==
    LET m == Len(nodes)
        pairs == [k \in 1..(m * m) |-> <<nodes[((k - 1) \div m) + 1], nodes[((k - 1) % m) + 1]>>]
    IN  SelectSeq(pairs, LAMBDA a : IsArc(a[1], a[2]))

Range(s) == {s[k] : k \in DOMAIN s}

\* ----------------------------------------------------------- the MILP model
\* A registered linear constraint: sum of the variables of `terms` (sense) rhs.
Constraint(terms, sense, rhs) == [terms |-> terms, sense |-> sense, rhs |-> rhs]

\* "add constraints": for every node, exactly one selected outgoing arc
\* (node.ongoing_arcs) and exactly one selected incoming arc (node.incoming_arcs).
DegreeConstraints(nodes, arcs) ==
    {Constraint({a \in Range(arcs) : a[1] = nd}, "==", 1) : nd \in Range(nodes)}
    \cup {Constraint({a \in Range(arcs) : a[2] = nd}, "==", 1) : nd \in Range(nodes)}

\* The value of a constraint's left-hand side at the assignment that sets
\* exactly the arcs of `sel` to 1.
Lhs(c, sel) == Cardinality(c.terms \cap sel)

Satisfies(sel, c) ==
    IF c.sense = "==" THEN Lhs(c, sel) = c.rhs ELSE Lhs(c, sel) <= c.rhs

\* Successor lists of the first k nodes in which no destination repeats: the
\* assignments with one outgoing arc per node and at most one incoming arc.
RECURSIVE Successors(_, _, _)
Successors(nodes, arcs, k) ==
    IF k = 0 THEN {<<>>}
    ELSE UNION {{Append(p, a[2]) : a \in {b \in Range(arcs) :
                                          b[1] = nodes[k] /\ b[2] \notin Range(p)}}
                : p \in Successors(nodes, arcs, k - 1)}

\* What optimize()/solve() may return: every 0/1 assignment (as the set of
\* arcs whose variable is 1) that satisfies all registered constraints.
FeasibleAssignments(nodes, arcs, cons) ==
    {sel \in {{<<nodes[k], p[k]>> : k \in DOMAIN p} : p \in Successors(nodes, arcs, Len(nodes))} :
        \A c \in cons : Satisfies(sel, c)}

\* ------------------------------------------------------------------ subtour
\* sol = {a[0]: a[1] for a in A if x[a].X == 1}: for an origin with several
\* selected arcs the dict keeps the last one in the order of A.
SolDict(arcs, sel) ==
    [o \in {a[1] : a \in sel} |->
        LET last == CHOOSE k \in DOMAIN arcs :
                        /\ arcs[k] \in sel /\ arcs[k][1] = o
                        /\ \A j \in DOMAIN arcs : (arcs[j] \in sel /\ arcs[j][1] = o) => j <= k
        IN  arcs[last][2]]

\* Python's None, and the value of a name not assigned yet.
None == <<>>

\* InitNode with a break after the first match: the origin of the first
\* selected arc of A.
InitNodeFirst(arcs, sel) ==
    IF sel \cap Range(arcs) = {} THEN None
    ELSE LET first == CHOOSE k \in DOMAIN arcs :
                          arcs[k] \in sel /\ \A j \in DOMAIN arcs : arcs[j] \in sel => k <= j
         IN  arcs[first][1]

\* init: the origin of the last arc of A whose variable is 1 (None if none).
InitNode(arcs, sel) ==
    IF sel \cap Range(arcs) = {} THEN None
    ELSE LET last == CHOOSE k \in DOMAIN arcs :
                         arcs[k] \in sel /\ \A j \in DOMAIN arcs : arcs[j] \in sel => j <= k
         IN  arcs[last][1]

\* The while loop of subtour(): follow sol from `next` until the dummy node.
\* A walk longer than the dict has keys has entered a cycle without the dummy
\* node and never leaves the loop.
RECURSIVE Walk(_, _, _)
Walk(sol, next, arc_cycle) ==
    IF next = dummy_node THEN [status |-> "ok", arcs |-> arc_cycle]
    ELSE IF next \notin DOMAIN sol THEN [status |-> "KeyError", arcs |-> arc_cycle]
    ELSE IF Len(arc_cycle) > Cardinality(DOMAIN sol) THEN [status |-> "hang", arcs |-> arc_cycle]
    ELSE Walk(sol, sol[next], Append(arc_cycle, <<next, sol[next]>>))

\* subtour(model): the list of arcs returned, or the way the call fails.
subtour(arcs, sel) ==
    LET sol == SolDict(arcs, sel)
        init == InitNode(arcs, sel)
    IN  IF init \notin DOMAIN sol THEN [status |-> "KeyError", arcs |-> <<>>]
        ELSE LET w == Walk(sol, sol[init], <<>>)
             IN  IF w.status # "ok" THEN w
                 ELSE IF w.arcs = <<>> THEN [status |-> "IndexError", arcs |-> <<>>]
                 ELSE [status |-> "ok",
                       arcs |-> Append(w.arcs, <<w.arcs[Len(w.arcs)][2], w.arcs[1][1]>>)]

\* nodes = [a[0] for a in tour]
Origins(tr) == [k \in DOMAIN tr |-> tr[k][1]]

\* permutations(nodes, 2) filtered by "(i, j) in A": the terms of the cut.
CutTerms(arcs, nds) ==
    {a \in Range(arcs) : \E i, j \in DOMAIN nds : i # j /\ a = <<nds[i], nds[j]>>}

\* The elimination constraint with the bound len(tour) instead of len(tour) - 1.
EliminationConstraintLoose(arcs, tr) ==
    Constraint(CutTerms(arcs, Origins(tr)), "<=", Len(tr))

\* The elimination constraint with the bound len(tour) - 2.
EliminationConstraintTight(arcs, tr) ==
    Constraint(CutTerms(arcs, Origins(tr)), "<=", Len(tr) - 2)

\* The constraint added for a tour shorter than n.
EliminationConstraint(arcs, tr) ==
    Constraint(CutTerms(arcs, Origins(tr)), "<=", Len(tr) - 1)

\* -------------------------------------------------------------- rendering
\* path: the dict from each tour arc's origin cell to its destination cell;
\* sol: the visit number of every cell met from path[(0, 0)] until (0, 0).
RECURSIVE Number(_, _, _, _)
Number(path, next_node, k, acc) ==
    IF next_node = dummy_node \/ next_node \notin DOMAIN path \/ k > Cardinality(DOMAIN path)
    THEN acc
    ELSE Number(path, path[next_node], k + 1,
                [c \in DOMAIN acc \cup {next_node} |-> IF c = next_node THEN k ELSE acc[c]])

Render(tr) ==
    LET path == [o \in Range(Origins(tr)) |->
                    tr[CHOOSE k \in DOMAIN tr :
                          tr[k][1] = o /\ \A j \in DOMAIN tr : tr[j][1] = o => j <= k][2]]
    IN  Number(path, path[dummy_node], 1, <<>>)

\* ------------------------------------------------------------------- state
VARIABLES
    backend,      \* "grb": ..._calling_grb.py, "pulp": ..._calling_pulp.py
    num_rows, num_cols, H,   \* the input data
    N, A, n,      \* node list, arc list, len(N)
    constraints,  \* the constraints registered with the solver
    x,            \* the arcs whose variable reads 1 after the last solve
    tour, tour_length,
    nodes,        \* the node list of the last cut (None until one is made)
    sol,          \* the rendered visit numbers
    u, printed,   \* single-solve files: the sequence variables, the printed rows
    ignored,      \* infeasible solves whose status was not looked at
    pc

vars == <<backend, num_rows, num_cols, H, N, A, n, constraints, x, tour, tour_length,
          nodes, sol, u, printed, ignored, pc>>

\* Grid sizes of at most MaxCells cells, with any set of cells as holes.
Sizes == {d \in (1..MaxCells) \X (1..MaxCells) : d[1] * d[2] <= MaxCells}

Start(b, rows, cols, holes) ==
    /\ backend = b
    /\ num_rows = rows /\ num_cols = cols /\ H = holes
    /\ N = <<>> /\ A = <<>> /\ n = 0
    /\ constraints = {}
    /\ x = {}
    /\ tour = <<>> /\ tour_length = 0
    /\ nodes = None
    /\ sol = <<>>
    /\ u = <<>> /\ printed = <<>>
    /\ ignored = 0
    /\ pc = "INPUT"

Init ==
    \E b \in {"grb", "pulp"} : \E d \in Sizes :
        \E holes \in SUBSET Range(GridCells(d[1], d[2])) : Start(b, d[1], d[2], holes)

\* "creating nodes" and "creating arcs".
BuildGraph ==
    /\ pc = "INPUT"
    /\ N' = Nodes(num_rows, num_cols, H)
    /\ A' = Arcs(N')
    /\ pc' = "GRAPH"
    /\ UNCHANGED <<u, printed, backend, num_rows, num_cols, H, n, constraints, x, tour, tour_length,
                   nodes, sol, ignored>>

\* "Define the model": the variables and the two degree constraints per node.
\* For a node without arcs "sum(...) == 1" is the Python value False, which
\* neither addConstr nor addConstraint accepts.
Formulate ==
    /\ pc = "GRAPH"
    /\ IF \E c \in DegreeConstraints(N, A) : c.terms = {}
       THEN /\ pc' = "BuildError"
            /\ UNCHANGED <<n, constraints>>
       ELSE /\ constraints' = DegreeConstraints(N, A)
            /\ n' = Len(N)
            /\ pc' = "BUILT"
    /\ UNCHANGED <<u, printed, backend, num_rows, num_cols, H, N, A, x, tour, tour_length, nodes, sol,
                   ignored>>

\* tour_length = 0; the first test of "while tour_length < n".
EnterLoop ==
    /\ pc = "BUILT"
    /\ tour_length' = 0
    /\ pc' = IF tour_length' < n THEN "SOLVING" ELSE "EXITED"
    /\ UNCHANGED <<u, printed, backend, num_rows, num_cols, H, N, A, n, constraints, x, tour, nodes, sol,
                   ignored>>

\* mdl.optimize() / mdl.solve(solver) on a feasible model.
Solve ==
    /\ pc = "SOLVING"
    /\ \E sel \in FeasibleAssignments(N, A, constraints) : x' = sel
    /\ pc' = "SOLVED"
    /\ UNCHANGED <<u, printed, backend, num_rows, num_cols, H, N, A, n, constraints, tour, tour_length,
                   nodes, sol, ignored>>

\* mdl.optimize() on an infeasible model: no solution is stored, and the read
\* of x[a].X at the top of subtour() raises.
SolveInfeasibleGrb ==
    /\ pc = "SOLVING"
    /\ backend = "grb"
    /\ FeasibleAssignments(N, A, constraints) = {}
    /\ pc' = "INFEASIBLE"
    /\ UNCHANGED <<u, printed, backend, num_rows, num_cols, H, N, A, n, constraints, x, tour, tour_length,
                   nodes, sol, ignored>>

\* mdl.solve(solver) on an infeasible model: the status it returns is not
\* looked at, and the variables hold whatever values CBC reported.
SolveInfeasiblePulp ==
    /\ pc = "SOLVING"
    /\ backend = "pulp"
    /\ FeasibleAssignments(N, A, constraints) = {}
    /\ ignored < MaxIgnored
    /\ \E sel \in SUBSET Range(A) : Cardinality(sel) <= MaxSelected /\ x' = sel
    /\ ignored' = ignored + 1
    /\ pc' = "SOLVED"
    /\ UNCHANGED <<u, printed, backend, num_rows, num_cols, H, N, A, n, constraints, tour, tour_length,
                   nodes, sol>>

\* tour = subtour(mdl); tour_length = len(tour)
Decompose ==
    /\ pc = "SOLVED"
    /\ \E r \in {subtour(A, x)} :
          IF r.status = "ok"
          THEN /\ tour' = r.arcs
               /\ tour_length' = Len(r.arcs)
               /\ pc' = "DECOMPOSED"
          ELSE /\ pc' = r.status
               /\ UNCHANGED <<tour, tour_length>>
    /\ UNCHANGED <<u, printed, backend, num_rows, num_cols, H, N, A, n, constraints, x, nodes, sol, ignored>>

\* Cut with the test "if len(tour) > 1": a full tour is cut as well.
CutAlways ==
    /\ pc = "DECOMPOSED"
    /\ Len(tour) > 1
    /\ nodes' = Origins(tour)
    /\ constraints' = constraints \cup {EliminationConstraint(A, tour)}
    /\ pc' = "CUTTING"
    /\ UNCHANGED <<u, printed, backend, num_rows, num_cols, H, N, A, n, x, tour, tour_length, sol, ignored>>

\* "if n > len(tour) > 1": the elimination constraint over the tour's nodes.
Cut ==
    /\ pc = "DECOMPOSED"
    /\ n > Len(tour) /\ Len(tour) > 1
    /\ nodes' = Origins(tour)
    /\ constraints' = constraints \cup {EliminationConstraint(A, tour)}
    /\ pc' = "CUTTING"
    /\ UNCHANGED <<u, printed, backend, num_rows, num_cols, H, N, A, n, x, tour, tour_length, sol, ignored>>

\* The same test when it is false: nothing is added.
NoCut ==
    /\ pc = "DECOMPOSED"
    /\ ~(n > Len(tour) /\ Len(tour) > 1)
    /\ pc' = "PASSED"
    /\ UNCHANGED <<u, printed, backend, num_rows, num_cols, H, N, A, n, constraints, x, tour, tour_length,
                   nodes, sol, ignored>>

\* Report with the loop test comparing against the number of real cells less
\* one instead of n.
ReportShortTest ==
    /\ pc \in {"CUTTING", "PASSED"}
    /\ pc' = IF backend = "pulp" /\ nodes = None THEN "NameError"
             ELSE IF tour_length < n - 2 THEN "SOLVING"
             ELSE "EXITED"
    /\ UNCHANGED <<u, printed, backend, num_rows, num_cols, H, N, A, n, constraints, x, tour, tour_length,
                   nodes, sol, ignored>>

\* The print that ends the iteration (the PuLP one reads `nodes`), then the
\* test of "while tour_length < n".
Report ==
    /\ pc \in {"CUTTING", "PASSED"}
    /\ pc' = IF backend = "pulp" /\ nodes = None THEN "NameError"
             ELSE IF tour_length < n THEN "SOLVING"
             ELSE "EXITED"
    /\ UNCHANGED <<u, printed, backend, num_rows, num_cols, H, N, A, n, constraints, x, tour, tour_length,
                   nodes, sol, ignored>>

\* After the loop: tour = subtour(mdl); assert len(tour) == n; the rendering.
Finish ==
    /\ pc = "EXITED"
    /\ \E r \in {subtour(A, x)} :
          IF r.status # "ok"
          THEN /\ pc' = r.status
               /\ UNCHANGED <<tour, sol>>
          ELSE /\ tour' = r.arcs
               /\ IF Len(r.arcs) = n
                  THEN /\ sol' = Render(r.arcs)
                       /\ pc' = "ACCEPTED"
                  ELSE /\ pc' = "AssertionError"
                       /\ UNCHANGED sol
    /\ UNCHANGED <<u, printed, backend, num_rows, num_cols, H, N, A, n, constraints, x, tour_length, nodes,
                   ignored>>

Next ==
    \/ BuildGraph
    \/ Formulate
    \/ EnterLoop
    \/ Solve
    \/ SolveInfeasibleGrb
    \/ SolveInfeasiblePulp
    \/ Decompose
    \/ Cut
    \/ NoCut
    \/ Report
    \/ Finish

Spec == Init /\ [][Next]_vars

\* The elimination constraints registered so far.
Eliminations == {c \in constraints : c.sense = "<="}

\* The 3 x 3 grid without holes, Gurobi loop, followed for MaxSolves solves.
Init3x3 == Start("grb", 3, 3, {})

SolveWithinBudget ==
    /\ Cardinality(Eliminations) < MaxSolves
    /\ Solve

Next3x3 ==
    \/ BuildGraph
    \/ Formulate
    \/ EnterLoop
    \/ SolveWithinBudget
    \/ Decompose
    \/ Cut
    \/ NoCut
    \/ Report
    \/ Finish

Spec3x3 == Init3x3 /\ [][Next3x3]_vars

\* The program keeps running while it can take a step.
FairSpec == Spec /\ WF_vars(Next)

\* The runs of continuous_line_tsp_dfj_calling_grb.py alone.
InitGrb ==
    \E d \in Sizes :
        \E holes \in SUBSET Range(GridCells(d[1], d[2])) : Start("grb", d[1], d[2], holes)

NextGrb ==
    \/ BuildGraph
    \/ Formulate
    \/ EnterLoop
    \/ Solve
    \/ SolveInfeasibleGrb
    \/ Decompose
    \/ Cut
    \/ NoCut
    \/ Report
    \/ Finish

FairSpecGrb == InitGrb /\ [][NextGrb]_vars /\ WF_vars(NextGrb)

\* subtourelim of continuous_line_tsp_dfj_grb.py: the lazy constraint
\* quicksum(model._vars[a] for a in tour) <= len(tour) - 1.
subtourelimConstraint(tr) == Constraint(Range(tr), "<=", Len(tr) - 1)

\* The cycle of a 1-in-1-out assignment through the node `first`, as the list
\* of its arcs starting with the arc that leaves `first`.
RECURSIVE CycleFrom(_, _, _, _)
CycleFrom(sel, first, current, acc) ==
    LET a == CHOOSE b \in sel : b[1] = current
    IN  IF a[2] = first THEN Append(acc, a)
        ELSE CycleFrom(sel, first, a[2], Append(acc, a))

\* The cut generators on their own: a graph, a solution of its degree
\* constraints and one of the solution's subtours (more than one arc, fewer
\* than n) are given; "grb" builds the constraint of the iterative loop,
\* "cb" the lazy constraint of subtourelim.
InitCut ==
    \E b \in {"grb", "cb"} : \E d \in Sizes :
        \E holes \in SUBSET Range(GridCells(d[1], d[2])) :
            LET nds == Nodes(d[1], d[2], holes)
                arcs == Arcs(nds)
            IN  \E sel \in FeasibleAssignments(nds, arcs, DegreeConstraints(nds, arcs)) :
                    \E first \in Range(nds) :
                        \E cyc \in {CycleFrom(sel, first, first, <<>>)} :
                            /\ Len(cyc) > 1 /\ Len(cyc) < Len(nds)
                            /\ backend = b
                            /\ num_rows = d[1] /\ num_cols = d[2] /\ H = holes
                            /\ N = nds /\ A = arcs /\ n = Len(nds)
                            /\ constraints = DegreeConstraints(nds, arcs)
                            /\ x = sel
                            /\ tour = cyc /\ tour_length = Len(cyc)
                            /\ nodes = None
                            /\ sol = <<>>
                            /\ u = <<>> /\ printed = <<>>
                            /\ ignored = 0
                            /\ pc = "DECOMPOSED"

\* The body of "if n > len(tour) > 1" in subtourelim.
CutCallback ==
    /\ pc = "DECOMPOSED"
    /\ backend = "cb"
    /\ n > Len(tour) /\ Len(tour) > 1
    /\ constraints' = constraints \cup {subtourelimConstraint(tour)}
    /\ pc' = "CUTTING"
    /\ UNCHANGED <<u, printed, backend, num_rows, num_cols, H, N, A, n, x, tour, tour_length, nodes, sol,
                   ignored>>

\* The same in the iterative loop.
CutIterative ==
    /\ backend = "grb"
    /\ Cut

NextCut ==
    \/ CutIterative
    \/ CutCallback

SpecCut == InitCut /\ [][NextCut]_vars

\* ------------------------------------------- the lazy-constraint callbacks
\* "cb": continuous_line_tsp_dfj_grb.py (callback subtourelim),
\* "cb2": continuous_line_tsp_dfj_grb_2.py (callback subtour_constraint).

\* edges.select(current, '*') in subtour(edges) of dfj_grb.py: `current` is an
\* int of range(n) and the edges are pairs of Node objects, which no int
\* equals, so no edge is selected.
select(edges, current) == <<>>

\* The inner "while neighbors" of subtour(edges): the cycle grown from
\* neighbors[0] and the cities left unvisited.
RECURSIVE GrowCycle(_, _, _, _)
GrowCycle(edges, neighbors, unvisited, thiscycle) ==
    IF neighbors = <<>> THEN [cycle |-> thiscycle, unvisited |-> unvisited]
    ELSE LET current == neighbors[1]
             left == SelectSeq(unvisited, LAMBDA c : c # current)
         IN  GrowCycle(edges,
                       SelectSeq(select(edges, current), LAMBDA j : j \in Range(left)),
                       left, Append(thiscycle, current))

\* The outer "while unvisited": the shortest of the cycles found.
RECURSIVE ShortestCycle(_, _, _)
ShortestCycle(edges, unvisited, cycle) ==
    IF unvisited = <<>> THEN cycle
    ELSE LET g == GrowCycle(edges, unvisited, unvisited, <<>>)
         IN  ShortestCycle(edges, g.unvisited,
                           IF Len(cycle) > Len(g.cycle) THEN g.cycle ELSE cycle)

\* subtour(edges) of dfj_grb.py: the arcs of the shortest cycle over the
\* cities 0 .. cnt-1, closed by the arc from its last city to its first.
subtour_edges(edges, cnt) ==
    LET cycle == ShortestCycle(edges, [k \in 1..cnt |-> k - 1], [k \in 1..(cnt + 1) |-> k - 1])
    IN  Append([k \in 1..(Len(cycle) - 1) |-> <<cycle[k], cycle[k + 1]>>],
               <<cycle[Len(cycle)], cycle[1]>>)

\* The while loop of subtour(solution) of dfj_grb_2.py.
RECURSIVE Walk2(_, _, _, _)
Walk2(solution, init, next, arc_cycle) ==
    IF next = init THEN [status |-> "ok", arcs |-> arc_cycle]
    ELSE IF next \notin DOMAIN solution THEN [status |-> "KeyError", arcs |-> arc_cycle]
    ELSE IF Len(arc_cycle) > Cardinality(DOMAIN solution) THEN [status |-> "hang", arcs |-> arc_cycle]
    ELSE Walk2(solution, init, solution[next], Append(arc_cycle, <<next, solution[next]>>))

\* subtour(solution) of dfj_grb_2.py: init is the successor of the first key
\* of the dict, that is of the origin of the first selected arc of A.
subtour_solution(arcs, sel) ==
    LET solution == SolDict(arcs, sel)
        init == IF sel \cap Range(arcs) = {} THEN None
                ELSE solution[InitNodeFirst(arcs, sel)]
    IN  IF init \notin DOMAIN solution THEN [status |-> "KeyError", arcs |-> <<>>]
        ELSE LET w == Walk2(solution, init, solution[init], <<>>)
             IN  IF w.status # "ok" THEN w
                 ELSE IF w.arcs = <<>> THEN [status |-> "IndexError", arcs |-> <<>>]
                 ELSE [status |-> "ok",
                       arcs |-> Append(w.arcs, <<w.arcs[Len(w.arcs)][2], w.arcs[1][1]>>)]

\* The tour the callback of each file computes from the incumbent.
CallbackTour(b, arcs, sel, cnt) ==
    IF b = "cb" THEN [status |-> "ok", arcs |-> subtour_edges(sel, cnt)]
    ELSE subtour_solution(arcs, sel)

\* The argument of cbLazy in each file.
LazyConstraint(b, arcs, tr) ==
    IF b = "cb" THEN subtourelimConstraint(tr) ELSE EliminationConstraint(arcs, tr)

InitCb ==
    \E b \in {"cb", "cb2"} : \E d \in Sizes :
        \E holes \in SUBSET Range(GridCells(d[1], d[2])) : Start(b, d[1], d[2], holes)

\* mdl.optimize(callback) is called.
Optimize ==
    /\ pc = "BUILT"
    /\ pc' = "SEARCHING"
    /\ UNCHANGED <<u, printed, backend, num_rows, num_cols, H, N, A, n, constraints, x, tour, tour_length,
                   nodes, sol, ignored>>

\* The solver finds an integer solution of the constraints it holds, lazy
\* ones included, and calls the callback with where = MIPSOL.
Incumbent ==
    /\ pc = "SEARCHING"
    /\ \E sel \in FeasibleAssignments(N, A, constraints) : x' = sel
    /\ pc' = "MIPSOL"
    /\ UNCHANGED <<u, printed, backend, num_rows, num_cols, H, N, A, n, constraints, tour, tour_length,
                   nodes, sol, ignored>>

\* No integer solution is left: optimize() returns without one and the read
\* of the variable values after it raises.
NoIncumbent ==
    /\ pc = "SEARCHING"
    /\ FeasibleAssignments(N, A, constraints) = {}
    /\ pc' = "INFEASIBLE"
    /\ UNCHANGED <<u, printed, backend, num_rows, num_cols, H, N, A, n, constraints, x, tour, tour_length,
                   nodes, sol, ignored>>

\* The callback when "n > len(tour) > 1" holds: a lazy constraint is added,
\* and the solver drops the incumbent if it violates the constraint.
CallbackLazy ==
    /\ pc = "MIPSOL"
    /\ \E r \in {CallbackTour(backend, A, x, n)} :
          /\ r.status = "ok"
          /\ n > Len(r.arcs) /\ Len(r.arcs) > 1
          /\ tour' = r.arcs
          /\ nodes' = IF backend = "cb2" THEN Origins(r.arcs) ELSE nodes
          /\ \E cut \in {LazyConstraint(backend, A, r.arcs)} :
                /\ constraints' = constraints \cup {cut}
                /\ pc' = IF Satisfies(x, cut) THEN "OPTIMAL" ELSE "SEARCHING"
    /\ UNCHANGED <<u, printed, backend, num_rows, num_cols, H, N, A, n, x, tour_length, sol, ignored>>

\* The callback when the test fails: the incumbent is kept, and as every
\* solution has the same objective value the search ends with it.
CallbackPass ==
    /\ pc = "MIPSOL"
    /\ \E r \in {CallbackTour(backend, A, x, n)} :
          IF r.status # "ok"
          THEN /\ pc' = r.status
               /\ UNCHANGED tour
          ELSE /\ ~(n > Len(r.arcs) /\ Len(r.arcs) > 1)
               /\ tour' = r.arcs
               /\ pc' = "OPTIMAL"
    /\ UNCHANGED <<u, printed, backend, num_rows, num_cols, H, N, A, n, constraints, x, tour_length, nodes,
                   sol, ignored>>

\* After optimize(): dfj_grb.py asserts len(subtour(selected)) == n;
\* dfj_grb_2.py renders subtour(sol), reading path[(0, 0)].
Retrieve ==
    /\ pc = "OPTIMAL"
    /\ \E r \in {CallbackTour(backend, A, x, n)} :
          IF r.status # "ok"
          THEN /\ pc' = r.status
               /\ UNCHANGED <<tour, sol>>
          ELSE /\ tour' = r.arcs
               /\ IF backend = "cb"
                  THEN /\ pc' = IF Len(r.arcs) = n THEN "ACCEPTED" ELSE "AssertionError"
                       /\ UNCHANGED sol
                  ELSE IF dummy_node \notin Range(Origins(r.arcs))
                  THEN /\ pc' = "KeyError"
                       /\ UNCHANGED sol
                  ELSE /\ sol' = Render(r.arcs)
                       /\ pc' = "ACCEPTED"
    /\ UNCHANGED <<u, printed, backend, num_rows, num_cols, H, N, A, n, constraints, x, tour_length, nodes,
                   ignored>>

NextCb ==
    \/ BuildGraph
    \/ Formulate
    \/ Optimize
    \/ Incumbent
    \/ NoIncumbent
    \/ CallbackLazy
    \/ CallbackPass
    \/ Retrieve

SpecCb == InitCb /\ [][NextCb]_vars

\* ------------------------------------------ the single-solve formulations
\* "mtz_pulp": continuous_line_tsp_mtz_pulp.py, "mtz_grb":
\* continuous_line_tsp_mtz_grb.py, "dfj_pulp": continuous_line_tsp_dfj_pulp.py.

\* dummy_node of dfj_pulp.py, Node(Cell(-1, -1)), which is kept out of N.
dummy_node_dfj_pulp == <<-1, -1>>

Dummy(b) == IF b = "dfj_pulp" THEN dummy_node_dfj_pulp ELSE dummy_node

\* The arc condition of the second loop of dfj_pulp.py.
IsGridArc(origin, destination) ==
    \/ origin[1] = destination[1] /\ Abs(origin[2] - destination[2]) = 1
    \/ origin[2] = destination[2] /\ Abs(origin[1] - destination[1]) = 1

\* A of dfj_pulp.py: the two dummy arcs of every node, then the grid arcs.
RECURSIVE DummyArcs(_)
DummyArcs(nds) ==
    IF nds = <<>> THEN <<>>
    ELSE <<<<nds[1], dummy_node_dfj_pulp>>, <<dummy_node_dfj_pulp, nds[1]>>>>
             \o DummyArcs(Tail(nds))

ArcsDfjPulp(nds) ==
    LET m == Len(nds)
        pairs == [k \in 1..(m * m) |-> <<nds[((k - 1) \div m) + 1], nds[((k - 1) % m) + 1]>>]
    IN  DummyArcs(nds) \o SelectSeq(pairs, LAMBDA a : IsGridArc(a[1], a[2]))

\* The nodes that get degree constraints: N, and in dfj_pulp.py N + [dummy_node].
AllNodes(b, nds) == IF b = "dfj_pulp" THEN Append(nds, dummy_node_dfj_pulp) ELSE nds

\* The nodes that carry a rendered u: N_but_dummy, and in dfj_pulp.py N.
SeqNodes(b, nds) == {nd \in Range(nds) : nd # Dummy(b)}

\* The bounds of u: lowBound = 1 and upBound = len(N_but_dummy); in
\* dfj_pulp.py upBound = len(N) and no lower bound.
UValues(b, nds) ==
    LET m == Cardinality(SeqNodes(b, nds))
    IN  IF b = "dfj_pulp" THEN (1 - MaxBelow)..m ELSE 1..m

\* "sequence": u[origin] - u[destination] + 1 <= n * (1 - x[arc]) for every
\* arc that does not touch the dummy node.
SequenceOK(b, arcs, sel, uu, cnt) ==
    \A a \in Range(arcs) :
        (a[1] # Dummy(b) /\ a[2] # Dummy(b)) =>
            uu[a[1]] - uu[a[2]] + 1 <= cnt * (1 - (IF a \in sel THEN 1 ELSE 0))

\* The values solve()/optimize() may return for x and u.
FeasibleSeq(b, nds, arcs, cons, cnt) ==
    {p \in FeasibleAssignments(AllNodes(b, nds), arcs, cons) \X [SeqNodes(b, nds) -> UValues(b, nds)] :
        SequenceOK(b, arcs, p[1], p[2], cnt)}

\* The rows printed: u_sol of the cell, or the filler of a cell without one;
\* dfj_pulp.py runs the columns over range(1, num_rows + 1) and fills with 'X'.
PrintedRows(b, nrows, ncols, u_sol) ==
    [i \in 1..nrows |->
        [j \in 1..(IF b = "dfj_pulp" THEN nrows ELSE ncols) |->
            IF <<i, j>> \in DOMAIN u_sol THEN u_sol[<<i, j>>]
            ELSE IF b = "dfj_pulp" THEN "X" ELSE 0]]

InitSeq ==
    \E b \in {"mtz_pulp", "mtz_grb", "dfj_pulp"} : \E d \in Sizes :
        \E holes \in SUBSET Range(GridCells(d[1], d[2])) : Start(b, d[1], d[2], holes)

\* "creating nodes" and "creating arcs" of the two mtz files.
BuildGraphMtz ==
    /\ backend # "dfj_pulp"
    /\ BuildGraph

\* The same in dfj_pulp.py.
BuildGraphDfjPulp ==
    /\ pc = "INPUT"
    /\ backend = "dfj_pulp"
    /\ N' = SelectSeq(GridCells(num_rows, num_cols), LAMBDA c : c \notin H)
    /\ A' = ArcsDfjPulp(N')
    /\ pc' = "GRAPH"
    /\ UNCHANGED <<u, printed, backend, num_rows, num_cols, H, n, constraints, x, tour,
                   tour_length, nodes, sol, ignored>>

\* "Define the model": the degree constraints and n. Python's sum over no
\* arc makes "sum(...) == 1" False, which addConstr refuses (mtz_grb.py); with
\* lpSum the constraint 0 == 1 is registered.
FormulateSeq ==
    /\ pc = "GRAPH"
    /\ IF backend = "mtz_grb" /\ \E c \in DegreeConstraints(N, A) : c.terms = {}
       THEN /\ pc' = "BuildError"
            /\ UNCHANGED <<n, constraints>>
       ELSE /\ constraints' = DegreeConstraints(AllNodes(backend, N), A)
            /\ n' = IF backend = "mtz_pulp" THEN Len(N) ELSE Len(N) + 1
            /\ pc' = "SOLVING"
    /\ UNCHANGED <<u, printed, backend, num_rows, num_cols, H, N, A, x, tour, tour_length,
                   nodes, sol, ignored>>

\* mdl.solve() / mdl.optimize() on a feasible model.
SolveSeq ==
    /\ pc = "SOLVING"
    /\ \E p \in FeasibleSeq(backend, N, A, constraints, n) : x' = p[1] /\ u' = p[2]
    /\ pc' = "SOLVED"
    /\ UNCHANGED <<printed, backend, num_rows, num_cols, H, N, A, n, constraints, tour,
                   tour_length, nodes, sol, ignored>>

\* On an infeasible model: u[node].X raises (mtz_grb.py); with PuLP the
\* status is not looked at and u[node].value() is None, which round() refuses,
\* or whatever value CBC left.
SolveSeqInfeasible ==
    /\ pc = "SOLVING"
    /\ FeasibleSeq(backend, N, A, constraints, n) = {}
    /\ \/ /\ backend = "mtz_grb"
          /\ pc' = "INFEASIBLE"
          /\ UNCHANGED <<u, ignored>>
       \/ /\ backend # "mtz_grb"
          /\ pc' = "TypeError"
          /\ UNCHANGED <<u, ignored>>
       \/ /\ backend # "mtz_grb"
          /\ u' \in [SeqNodes(backend, N) -> UValues(backend, N) \cup {0}]
          /\ ignored' = 1
          /\ pc' = "SOLVED"
    /\ UNCHANGED <<printed, backend, num_rows, num_cols, H, N, A, n, constraints, x, tour,
                   tour_length, nodes, sol>>

\* "retrieve and print out the solution": u_sol and the printed rows.
PrintSeq ==
    /\ pc = "SOLVED"
    /\ sol' = u
    /\ printed' = PrintedRows(backend, num_rows, num_cols, u)
    /\ pc' = "PRINTED"
    /\ UNCHANGED <<u, backend, num_rows, num_cols, H, N, A, n, constraints, x, tour,
                   tour_length, nodes, ignored>>

NextSeq ==
    \/ BuildGraphMtz
    \/ BuildGraphDfjPulp
    \/ FormulateSeq
    \/ SolveSeq
    \/ SolveSeqInfeasible
    \/ PrintSeq

SpecSeq == InitSeq /\ [][NextSeq]_vars

\* Input data as they may be written at the top of the module, malformed
\* ones included; only the graph and the model are built.
RECURSIVE SubsetsUpTo(_, _)
SubsetsUpTo(S, k) ==
    IF k = 0 THEN {{}}
    ELSE LET smaller == SubsetsUpTo(S, k - 1)
         IN  smaller \cup {s \cup {e} : s \in smaller, e \in S}

InitInput ==
    \E rows \in 0..MaxDim : \E cols \in 0..MaxDim :
        \E holes \in SubsetsUpTo((0..(MaxDim + 1)) \X (0..(MaxDim + 1)), MaxHoles) :
            Start("grb", rows, cols, holes)

NextInput ==
    \/ BuildGraph
    \/ Formulate

SpecInput == InitInput /\ [][NextInput]_vars

\* ------------------------------------------------------------------ claims
Manhattan(c, d) == Abs(c[1] - d[1]) + Abs(c[2] - d[2])

\* The non-hole cells of the input grid.
RealCells == Range(GridCells(num_rows, num_cols)) \ H

\* The cells of the tour in visiting order: the origins of its arcs but the
\* last, whose origin is the dummy node.
FirstCell == tour[1][1]
LastCell == tour[Len(tour) - 1][1]

\* C1: the loop ends in ACCEPTED only with a tour of n arcs (every real node
\* plus the dummy): the tour then leaves every non-hole cell exactly once,
\* its arcs follow one another, consecutive cells are edge-adjacent, and the
\* assertion len(tour) == n after the loop never fails.
C1_AcceptedTourIsFull ==
    /\ pc # "AssertionError"
    /\ pc = "ACCEPTED" =>
        /\ tour_length = n /\ Len(tour) = n
        /\ n = Cardinality(RealCells) + 1
        /\ \A c \in RealCells \cup {dummy_node} :
              Cardinality({k \in DOMAIN tour : tour[k][1] = c}) = 1
        /\ \A k \in 1..(Len(tour) - 1) : tour[k][2] = tour[k + 1][1]
        /\ \A k \in DOMAIN tour :
              (tour[k][1] # dummy_node /\ tour[k][2] # dummy_node)
                  => Manhattan(tour[k][1], tour[k][2]) = 1

\* A run accepted after at least one elimination constraint, on four cells.
C1_Witness ==
    /\ pc = "ACCEPTED" /\ n = 5
    /\ \E c \in constraints : c.sense = "<="

\* C2 as stated: in every accepted tour the last cell visited is
\* edge-adjacent to the first cell visited.
C2_ClosedInGrid ==
    pc = "ACCEPTED" => Manhattan(FirstCell, LastCell) = 1

\* C2 as amended: an accepted tour is a line through every non-hole cell,
\* numbered 1..m by the rendering with consecutive numbers on edge-adjacent
\* cells; it is closed through the dummy node only: the cell numbered m is
\* followed by the dummy node and the dummy node by the cell numbered 1.
C2_LineClosedThroughDummy ==
    pc = "ACCEPTED" =>
        LET m == Cardinality(RealCells)
        IN  /\ DOMAIN sol = RealCells
            /\ {sol[c] : c \in RealCells} = 1..m
            /\ \A c, d \in RealCells : sol[d] = sol[c] + 1 => Manhattan(c, d) = 1
            /\ \A c \in RealCells : sol[c] = 1 => <<dummy_node, c>> \in x
            /\ \A c \in RealCells : sol[c] = m => <<c, dummy_node>> \in x

\* An accepted line whose two ends are not edge-adjacent.
C2_Witness ==
    /\ pc = "ACCEPTED"
    /\ Cardinality(RealCells) >= 3
    /\ Manhattan(FirstCell, LastCell) # 1

Is3x3 == num_rows = 3 /\ num_cols = 3 /\ H = {}

C6_InfeasibleIsTerminal ==
    [][(pc = "SOLVING" /\ FeasibleAssignments(N, A, constraints) = {})
          => pc' = "INFEASIBLE"]_vars

\* Input that GridGraph must refuse: a dimension that is not positive, or a
\* hole outside [1..num_rows] x [1..num_cols].
MalformedInput ==
    \/ num_rows <= 0
    \/ num_cols <= 0
    \/ \E h \in H : ~(h[1] \in 1..num_rows /\ h[2] \in 1..num_cols)

\* C7: on malformed input the construction fails with ConfigurationError and
\* no graph is produced.
C7_MalformedInputRefused ==
    MalformedInput => (pc \in {"INPUT", "ConfigurationError"} /\ N = <<>> /\ A = <<>>)

\* The assignment selects exactly one outgoing and one incoming arc per node.
IsBijection(sel) ==
    \A nd \in Range(N) :
        /\ Cardinality({a \in sel : a[1] = nd}) = 1
        /\ Cardinality({a \in sel : a[2] = nd}) = 1

\* C8: the decomposer neither returns a cycle nor runs forever on an
\* assignment that is not a 1-in-1-out bijection.
C8_MalformedSolutionRejected ==
    pc \in {"DECOMPOSED", "hang"} => IsBijection(x)

\* The nodes reachable from S along the selected arcs.
RECURSIVE Reach(_, _)
Reach(sel, S) ==
    LET T == S \cup {a[2] : a \in {b \in sel : b[1] \in S}}
    IN  IF T = S THEN S ELSE Reach(sel, T)

\* The node sets of the cycles of a bijective assignment.
Cycles(sel) == {Reach(sel, {nd}) : nd \in Range(N)}

TourNodes == {tour[k][1] : k \in DOMAIN tour}

Valid(sel) == \A c \in constraints : Satisfies(sel, c)

ArcsWithin(S) == {a \in Range(A) : a[1] \in S /\ a[2] \in S}

\* C10 as stated: a CUTTING step adds one elimination constraint per cycle
\* without the dummy node and none for the cycle with the dummy node.
C10_CutsEveryOtherSubtour ==
    [][(pc = "DECOMPOSED" /\ pc' = "CUTTING" /\ Valid(x)) =>
          constraints' \ constraints =
              {Constraint(ArcsWithin(cyc), "<=", Cardinality(cyc) - 1) :
                  cyc \in {c \in Cycles(x) : dummy_node \notin c}}]_vars

\* C10 as amended: a CUTTING step on a candidate solution that satisfies the
\* registered constraints adds exactly one elimination constraint, the one
\* over the nodes of the cycle that contains the dummy node, bounded by that
\* cycle's length less one; the other subtours get no constraint in that step.
C10_CutsDummyCycleOnly ==
    [][(pc = "DECOMPOSED" /\ pc' = "CUTTING" /\ Valid(x)) =>
          LET cyc == Reach(x, {dummy_node})
              cut == Constraint(ArcsWithin(cyc), "<=", Cardinality(cyc) - 1)
          IN  /\ cut \notin constraints
              /\ constraints' = constraints \cup {cut}
              /\ Cardinality(cyc) < n]_vars

\* A CUTTING step taken while another subtour exists beside the dummy's.
C10_Witness ==
    /\ pc = "CUTTING" /\ ~Valid(x)
    /\ IsBijection(x)
    /\ \E cyc \in Cycles(x) : dummy_node \notin cyc
    /\ Cardinality(Eliminations) >= 2

EvenGridNoHoles ==
    num_rows >= 2 /\ num_cols >= 2 /\ (num_rows * num_cols) % 2 = 0 /\ H = {}

AcceptedWholeGrid ==
    /\ pc = "ACCEPTED"
    /\ Len(tour) = num_rows * num_cols + 1
    /\ TourNodes = RealCells \cup {dummy_node}

EvenGridGrb == EvenGridNoHoles /\ backend = "grb"

\* C4: on a grid without holes with at least 2 rows, 2 columns and an even
\* number of cells the Gurobi loop ends in ACCEPTED with a cycle of
\* num_rows * num_cols + 1 nodes.
C4_EvenGridAccepted == EvenGridGrb ~> AcceptedWholeGrid

\* An accepted run on such a grid that needed elimination constraints.
C4_Witness ==
    /\ EvenGridGrb /\ AcceptedWholeGrid
    /\ Cardinality(Eliminations) >= 2

Built == pc = "BUILT"

Terminal == pc \in {"ACCEPTED", "INFEASIBLE"}

\* C11: from BUILT the loop reaches ACCEPTED or INFEASIBLE; elimination
\* constraints are never removed, every iteration whose tour is shorter than
\* n adds one that was not registered, and every candidate solution returned
\* by a solve satisfies all constraints registered so far (so a candidate that
\* was cut is not returned again).
C11_LoopTerminates ==
    /\ Built ~> Terminal
    /\ [][constraints \subseteq constraints']_vars
    /\ [][(pc = "DECOMPOSED" /\ tour_length < n) =>
             (pc' = "CUTTING" /\ constraints' # constraints)]_vars
    /\ [][(pc = "SOLVING" /\ pc' = "SOLVED") => Valid(x)']_vars

\* The assignments that satisfy the degree constraints of the grid and form
\* one cycle through all n nodes: the valid tours of the grid.
FullTours ==
    {sel \in FeasibleAssignments(N, A, DegreeConstraints(N, A)) :
        Len(subtour(A, sel).arcs) = Len(N)}

DecisionFollowsGrid ==
    /\ pc = "ACCEPTED" => (FullTours # {} /\ x \in FullTours)
    /\ pc = "INFEASIBLE" => FullTours = {}

\* C12: the terminal state of the Gurobi loop is a function of the grid and
\* the hole set, whichever feasible assignment each solve returns: every run
\* from BUILT ends, in ACCEPTED exactly when the grid has a valid tour (and
\* the accepted assignment is one of them) and in INFEASIBLE exactly when it
\* has none; hence two runs on the same grid end in the same terminal state.
C12_DecisionDeterministic ==
    /\ []DecisionFollowsGrid
    /\ Built ~> Terminal

\* An accepted run that needed a cut, on a grid with several valid tours:
\* other runs on this grid answer differently and are accepted as well.
C12_Witness ==
    /\ pc = "ACCEPTED" /\ backend = "grb"
    /\ Eliminations # {}
    /\ Cardinality(FullTours) >= 2
    /\ Cardinality(FeasibleAssignments(N, A, DegreeConstraints(N, A))) > Cardinality(FullTours)

C14_GraphShape ==
    pc # "INPUT" =>
        /\ Range(N) = RealCells \cup {dummy_node}
        /\ Len(N) = Cardinality(RealCells) + 1
        /\ Cardinality({k \in DOMAIN N : N[k] = dummy_node}) = 1
        /\ Range(A) \subseteq Range(N) \X Range(N)
        /\ Len(A) = Cardinality(Range(A))
        /\ \A o, d \in Range(N) :
              <<o, d>> \in Range(A) <=>
                  /\ o # d
                  /\ \/ o # dummy_node /\ d # dummy_node /\ Manhattan(o, d) = 1
                     \/ (o = dummy_node) # (d = dummy_node)
        /\ \A a \in Range(A) : a[1] # a[2] /\ <<a[2], a[1]>> \in Range(A)
        /\ \A c \in RealCells :
              <<dummy_node, c>> \in Range(A) /\ <<c, dummy_node>> \in Range(A)

\* A graph built for a grid with a hole and at least three real nodes.
C14_Witness ==
    /\ pc = "GRAPH"
    /\ H # {}
    /\ Cardinality(RealCells) >= 3
    /\ Len(A) > 2 * Cardinality(RealCells)

Formulated == pc \notin {"INPUT", "GRAPH", "BuildError"}

\* C16: no elimination constraint added by the loop removes a valid tour:
\* in every state every assignment that satisfies the degree constraints and
\* forms one cycle through all n nodes satisfies every elimination constraint
\* registered so far, hence stays feasible, and a grid with a valid tour
\* never reaches INFEASIBLE.
C16_CutsKeepFullTours ==
    Formulated =>
        /\ \A sel \in FullTours : \A c \in Eliminations : Satisfies(sel, c)
        /\ FullTours \subseteq FeasibleAssignments(N, A, constraints)
        /\ pc = "INFEASIBLE" => FullTours = {}

\* Two cuts registered on a grid that has valid tours.
C16_Witness ==
    /\ pc = "CUTTING"
    /\ Cardinality(Eliminations) >= 2
    /\ FullTours # {}

\* C18: in the PuLP loop no iteration raises an error, whichever iteration
\* first yields a full tour: the report at the end of an iteration never
\* reads `nodes` before a cut has assigned it, so a full tour on the very
\* first solve leads to ACCEPTED.
C18_PulpReportNeverFails ==
    /\ [](backend = "pulp" => pc # "NameError")
    /\ [][(backend = "pulp" /\ pc = "PASSED" /\ tour_length = n /\ Valid(x))
             => pc' = "EXITED"]_vars

\* An incumbent or candidate solution has been handed to the decomposer.
Inspecting == pc \in {"MIPSOL", "DECOMPOSED"}

\* C15: the callback realizations and the iterative one are the same loop:
\* every incumbent that consists of more than one cycle receives, in the step
\* that inspects it, an elimination constraint that it violates, and goes
\* back to the solver; the solution finally returned is one cycle through
\* all n nodes and passes the acceptance test, so no run ends in an error.
C15_SameLoop ==
    /\ [][(Inspecting /\ Valid(x) /\ Cardinality(Cycles(x)) > 1) =>
             /\ pc' \in {"SEARCHING", "CUTTING"}
             /\ \E c \in constraints' \ constraints : c.sense = "<=" /\ ~Satisfies(x, c)]_vars
    /\ [](pc \in {"OPTIMAL", "ACCEPTED"} => x \in FullTours)
    /\ [](pc = "ACCEPTED" => Len(tour) = n)
    /\ [](pc \notin {"AssertionError", "KeyError", "IndexError", "hang"})

\* The solver's values of a feasible single-solve model have been printed.
PrintedFeasible == pc = "PRINTED" /\ ignored = 0

\* C17: in each single-solve formulation every feasible assignment selects
\* arcs that form one cycle through all nodes, the u value of each real node
\* is its visit position counted from the dummy node, and the printed grid
\* shows the numbers 1..m (m non-hole cells) each once, at the cell visited
\* at that position, consecutive numbers lying on edge-adjacent cells.
C17_SequenceIsVisitOrder ==
    PrintedFeasible =>
        LET d == Dummy(backend)
            m == Cardinality(RealCells)
        IN  /\ Reach(x, {d}) = RealCells \cup {d}
            /\ Cardinality(x) = m + 1
            /\ DOMAIN u = RealCells
            /\ \A a \in x : a[1] = d => u[a[2]] = 1
            /\ \A a \in x : (a[1] # d /\ a[2] # d) => u[a[2]] = u[a[1]] + 1
            /\ {u[c] : c \in RealCells} = 1..m
            /\ \A c, e \in RealCells : u[e] = u[c] + 1 => Manhattan(c, e) = 1
            /\ Len(printed) = num_rows
            /\ \A i \in 1..num_rows : Len(printed[i]) = num_cols
            /\ \A c \in RealCells : printed[c[1]][c[2]] = u[c]

====
